---- MODULE Spec2Model ----
(***************************************************************************)
(* Booking-service backend: the bookings table with the slot-conflict      *)
(* engine and the booking controllers, and the users table with tenant-    *)
(* scoped authentication.                                                  *)
(*                                                                         *)
(* Representation.                                                         *)
(*   - A TIME value is the number of seconds since midnight; the model's   *)
(*     day is MaxMinute minutes long.  "HH:MM" arguments are whole minutes. *)
(*   - A DATE and a timestamp are day numbers; the server clock is today.  *)
(*   - SQL NULL / JS null / undefined of a string column is NULL; of a     *)
(*     numeric value it is the empty tuple <<>> and <<v>> is the value v;  *)
(*     a reset-token digest and its expiry are <<>> when NULL.             *)
(*   - Columns no modelled decision reads (patient_name, patient_contact,  *)
(*     title, duration_minutes, created_at, updated_at) are not stored;    *)
(*     the validation of the required ones is the request flag "required". *)
(***************************************************************************)
EXTENDS Integers, Sequences, FiniteSets, TLC

VARIABLES
    bookings,       \* the bookings table: booking id -> row
    nextId,         \* the next id gen_random_uuid() hands out
    today,          \* the server clock (CURRENT_DATE, CURRENT_TIMESTAMP)
    response,       \* the last HTTP response sent to a caller
    reqs,           \* the createBooking requests in flight (racing requests)
    avail,          \* the last isSlotAvailable call: its arguments and its result
    call,           \* the getAvailableSlots call in progress: arguments, bookedSlots
    slotPc,         \* where that call stands: idle, test, body, done
    currentTime,    \* getAvailableSlots: the loop variable, in minutes
    availableSlots, \* getAvailableSlots: the slots pushed so far
    users,          \* the users table: user id -> row
    authResult,     \* the last User.authenticate call: its arguments and its outcome
    regs,           \* the register requests in flight (racing requests)
    clock,          \* the server clock of timestamps (Date.now(), NOW()), in minutes
    nextToken,      \* the next value crypto.randomBytes(32) hands out
    issued          \* the reset tokens createPasswordResettoken has returned, in order:
                    \* the email and the id of the user forgotPassword found, the
                    \* token, the minute of issue, and whether a resetPassword
                    \* request has succeeded with it

bookVars == <<bookings, nextId, today, response>>
slotVars == <<avail, call, slotPc, currentTime, availableSlots>>
tokenVars == <<clock, nextToken, issued>>
userVars == <<users, authResult, regs, tokenVars>>
vars == <<bookings, nextId, today, response, reqs, avail, call, slotPc, currentTime,
          availableSlots, users, authResult, regs, clock, nextToken, issued>>

(***************************************************************************)
(* Bounds                                                                  *)
(***************************************************************************)
MaxBookings == 2    \* rows ever inserted in one run
MaxMinute == 2      \* length of the modelled day, in minutes
MaxDate == 2        \* dates 1..MaxDate

NULL == "NULL"
NoId == 0
Providers == {"P1", "P2"}
Users == {"U1"}
Dates == 1..MaxDate
Minutes == 0..MaxMinute
\* times of day on whole minutes, and all times (with a seconds part)
MinuteTimes == {m * 60 : m \in Minutes}
AllTimes == MinuteTimes \cup {m * 60 + 30 : m \in 0..(MaxMinute - 1)}

ActiveStatuses == {"pending", "confirmed", "completed"}
validStatuses == {"pending", "confirmed", "cancelled", "completed", "no_show"}
appointmentTypes == {"consultation", "treatment", "emergency"}

\* a || b of JavaScript on an optional number
OrElse(opt, dflt) == IF opt = <<>> THEN dflt ELSE opt[1]
\* a || b of JavaScript on an optional string
OrNull(a, b) == IF a = NULL THEN b ELSE a

(***************************************************************************)
(* Error classes and the error-handling middleware                         *)
(***************************************************************************)
\* an error object: its name, the statusCode of an AppError, and the code and the
\* constraint the database driver sets on its own errors
ErrorNamed(name) == [name |-> name, statusCode |-> 0, code |-> NULL, constraint |-> NULL]
AppError(code) == [ErrorNamed("AppError") EXCEPT !.statusCode = code]
PlainError == ErrorNamed("Error")
ValidationError == ErrorNamed("ValidationError")
TenantNotFoundError == ErrorNamed("TenantNotFoundError")
NotFoundError == ErrorNamed("NotFoundError")
EmailError == ErrorNamed("EmailError")
\* the error the database driver throws on a CHECK violation
DatabaseError == [ErrorNamed("error") EXCEPT !.code = "23514"]
\* the error the database driver throws on a violation of a unique index
UniqueViolation(constraint) ==
    [ErrorNamed("error") EXCEPT !.code = "23505", !.constraint = constraint]

\* errorHandler: the status and the "type" of the response for an error
errorHandler(err) ==
    IF err.name = "ValidationError" THEN [status |-> 400, type |-> "ValidationError"]
    ELSE IF err.name = "JsonWebTokenError" THEN [status |-> 401, type |-> "AuthenticationError"]
    ELSE IF err.name = "TokenExpiredError" THEN [status |-> 401, type |-> "AuthenticationError"]
    ELSE IF err.name = "DuplicateEmailError" THEN [status |-> 400, type |-> "DuplicateEmailError"]
    ELSE IF err.name = "NotFoundError" THEN [status |-> 404, type |-> "NotFoundError"]
    ELSE IF err.name = "EmailError" THEN [status |-> 500, type |-> "EmailError"]
    ELSE IF err.name = "TenantNotFoundError" THEN [status |-> 404, type |-> "TenantNotFoundError"]
    ELSE [status |-> 500, type |-> "InternalServerError"]

\* the response of a handler that ended in next(err) or a rejected promise
Failed(op, err) ==
    [op |-> op, status |-> errorHandler(err).status,
     type |-> errorHandler(err).type, thrown |-> err.name, code |-> err.statusCode]
\* the response of a handler that ended in res.status(s).json(...)
Sent(op, s) ==
    [op |-> op, status |-> s, type |-> "success", thrown |-> NULL, code |-> 0]
NoResponse == [op |-> NULL, status |-> 0, type |-> NULL, thrown |-> NULL, code |-> 0]

(***************************************************************************)
(* The bookings table                                                      *)
(***************************************************************************)
\* CONSTRAINT valid_time_range, CONSTRAINT valid_appointment_date
valid_time_range(row) == row.end_time > row.start_time
valid_appointment_date(row, current_date) == row.appointment_date >= current_date
CheckConstraints(row, current_date) ==
    valid_time_range(row) /\ valid_appointment_date(row, current_date)

\* a = b of SQL, in a WHERE clause: never true of a NULL
SqlEq(a, b) == a # NULL /\ b # NULL /\ a = b

\* isSlotAvailable that takes two absent providers for the same provider
isSlotAvailable_nullMatches(tbl, provider_id, appointment_date, start_time, end_time, exclude_booking_id) ==
    LET hits == {id \in DOMAIN tbl :
                    /\ tbl[id].provider_id = provider_id
                    /\ tbl[id].appointment_date = appointment_date
                    /\ tbl[id].status \notin {"cancelled", "no_show"}
                    /\ (tbl[id].start_time < end_time /\ tbl[id].end_time > start_time)
                    /\ (exclude_booking_id # NoId => id # exclude_booking_id)}
    IN  Cardinality(hits) = 0

\* isSlotAvailable with <= for <: intervals that only touch conflict
isSlotAvailable_touching(tbl, provider_id, appointment_date, start_time, end_time, exclude_booking_id) ==
    LET hits == {id \in DOMAIN tbl :
                    /\ SqlEq(tbl[id].provider_id, provider_id)
                    /\ tbl[id].appointment_date = appointment_date
                    /\ tbl[id].status \notin {"cancelled", "no_show"}
                    /\ (tbl[id].start_time <= end_time /\ tbl[id].end_time >= start_time)
                    /\ (exclude_booking_id # NoId => id # exclude_booking_id)}
    IN  Cardinality(hits) = 0

\* Booking.isSlotAvailable over the table tbl
isSlotAvailable(tbl, provider_id, appointment_date, start_time, end_time, exclude_booking_id) ==
    LET hits == {id \in DOMAIN tbl :
                    /\ SqlEq(tbl[id].provider_id, provider_id)
                    /\ tbl[id].appointment_date = appointment_date
                    /\ tbl[id].status \notin {"cancelled", "no_show"}
                    /\ \/ (tbl[id].start_time < end_time /\ tbl[id].end_time > start_time)
                       \/ (tbl[id].start_time >= start_time /\ tbl[id].start_time < end_time)
                       \/ (tbl[id].end_time > start_time /\ tbl[id].end_time <= end_time)
                    /\ (exclude_booking_id # NoId => id # exclude_booking_id)}
    IN  Cardinality(hits) = 0

\* Booking.create fed with the status and the customer_id of the request body
NewRow_fromBody(customer_id, body) ==
    [customer_id |-> OrNull(body.customer_id, customer_id),
     provider_id |-> body.provider_id,
     appointment_date |-> body.appointment_date,
     start_time |-> body.start_time,
     end_time |-> body.end_time,
     status |-> OrNull(body.status, "pending"),
     cancellation_reason |-> NULL,
     cancelled_at |-> <<>>,
     cancelled_by |-> NULL]
\* the row Booking.create inserts
NewRow(customer_id, body) ==
    [customer_id |-> customer_id,
     provider_id |-> body.provider_id,
     appointment_date |-> body.appointment_date,
     start_time |-> body.start_time,
     end_time |-> body.end_time,
     status |-> "pending",
     cancellation_reason |-> NULL,
     cancelled_at |-> <<>>,
     cancelled_by |-> NULL]

\* the row Booking.update leaves: COALESCE(patch, column)
Patched(row, patch) ==
    [row EXCEPT !.provider_id = OrNull(patch.provider_id, row.provider_id),
                !.appointment_date = OrElse(patch.appointment_date, row.appointment_date),
                !.start_time = OrElse(patch.start_time, row.start_time),
                !.end_time = OrElse(patch.end_time, row.end_time)]

\* updateStatus that records the time and the reason of a cancellation, not its author
WithStatus_anonymous(row, status, userId, reason, now) ==
    IF status = "cancelled"
    THEN [row EXCEPT !.status = status,
                     !.cancelled_at = <<now>>,
                     !.cancellation_reason = IF reason = "" THEN NULL ELSE reason]
    ELSE [row EXCEPT !.status = status]
\* the row Booking.updateStatus leaves; reason || null turns an absent reason, and
\* the empty string, into NULL
WithStatus(row, status, userId, reason, now) ==
    IF status = "cancelled"
    THEN [row EXCEPT !.status = status,
                     !.cancelled_at = <<now>>,
                     !.cancelled_by = userId,
                     !.cancellation_reason = IF reason = "" THEN NULL ELSE reason]
    ELSE [row EXCEPT !.status = status]

(***************************************************************************)
(* The booking controllers, one request at a time                          *)
(***************************************************************************)
\* createBooking: body.required = the required fields are all present;
\* body.appointment_type is NULL when absent
createBooking(user, body) ==
    /\ IF user = NULL
       THEN /\ response' = Failed("createBooking", AppError(401))
            /\ UNCHANGED <<bookings, nextId>>
       ELSE IF ~body.required
       THEN /\ response' = Failed("createBooking", AppError(400))
            /\ UNCHANGED <<bookings, nextId>>
       ELSE IF body.appointment_type # NULL /\ body.appointment_type \notin appointmentTypes
       THEN /\ response' = Failed("createBooking", AppError(400))
            /\ UNCHANGED <<bookings, nextId>>
       ELSE IF ~isSlotAvailable(bookings, body.provider_id, body.appointment_date,
                                body.start_time, body.end_time, NoId)
       THEN /\ response' = Failed("createBooking", AppError(409))
            /\ UNCHANGED <<bookings, nextId>>
       ELSE IF ~CheckConstraints(NewRow(user, body), today)
       THEN /\ response' = Failed("createBooking", DatabaseError)
            /\ UNCHANGED <<bookings, nextId>>
       ELSE /\ nextId <= MaxBookings
            /\ bookings' = bookings @@ (nextId :> NewRow(user, body))
            /\ nextId' = nextId + 1
            /\ response' = Sent("createBooking", 201)
    /\ UNCHANGED <<today, reqs, slotVars, userVars>>

\* updateBooking that stores the patch before it answers for the availability check
updateBooking_storesFirst(id, patch) ==
    /\ id \in DOMAIN bookings
    /\ bookings' = [bookings EXCEPT ![id] = Patched(bookings[id], patch)]
    /\ response' =
          IF isSlotAvailable(bookings, bookings'[id].provider_id, bookings'[id].appointment_date,
                             bookings'[id].start_time, bookings'[id].end_time, id)
          THEN Sent("updateBooking", 200)
          ELSE Failed("updateBooking", AppError(409))
    /\ UNCHANGED <<nextId, today, reqs, slotVars, userVars>>
\* updateBooking: patch fields are NULL / <<>> when absent
updateBooking(id, patch) ==
    /\ LET touchesSlot == \/ patch.appointment_date # <<>>
                          \/ patch.start_time # <<>>
                          \/ patch.end_time # <<>>
           existing == bookings[id]
       IN
       IF patch.appointment_type # NULL /\ patch.appointment_type \notin appointmentTypes
       THEN /\ response' = Failed("updateBooking", AppError(400))
            /\ UNCHANGED bookings
       ELSE IF touchesSlot /\ id \notin DOMAIN bookings
       THEN /\ response' = Failed("updateBooking", AppError(404))
            /\ UNCHANGED bookings
       ELSE IF /\ touchesSlot
               /\ ~isSlotAvailable(bookings,
                                   OrNull(patch.provider_id, existing.provider_id),
                                   OrElse(patch.appointment_date, existing.appointment_date),
                                   OrElse(patch.start_time, existing.start_time),
                                   OrElse(patch.end_time, existing.end_time),
                                   id)
       THEN /\ response' = Failed("updateBooking", AppError(409))
            /\ UNCHANGED bookings
       ELSE IF id \notin DOMAIN bookings
       THEN /\ response' = Failed("updateBooking", AppError(404))
            /\ UNCHANGED bookings
       ELSE IF ~CheckConstraints(Patched(existing, patch), today)
       THEN /\ response' = Failed("updateBooking", DatabaseError)
            /\ UNCHANGED bookings
       ELSE /\ bookings' = [bookings EXCEPT ![id] = Patched(existing, patch)]
            /\ response' = Sent("updateBooking", 200)
    /\ UNCHANGED <<nextId, today, reqs, slotVars, userVars>>

\* updateBookingStatus: status is NULL when absent
updateBookingStatus(user, id, status, reason) ==
    /\ IF status = NULL
       THEN /\ response' = Failed("updateBookingStatus", AppError(400))
            /\ UNCHANGED bookings
       ELSE IF status \notin validStatuses
       THEN /\ response' = Failed("updateBookingStatus", AppError(400))
            /\ UNCHANGED bookings
       ELSE IF id \notin DOMAIN bookings
       THEN /\ response' = Failed("updateBookingStatus", AppError(404))
            /\ UNCHANGED bookings
       ELSE IF ~CheckConstraints(WithStatus(bookings[id], status, user, reason, today), today)
       THEN /\ response' = Failed("updateBookingStatus", DatabaseError)
            /\ UNCHANGED bookings
       ELSE /\ bookings' = [bookings EXCEPT
                               ![id] = WithStatus(bookings[id], status, user, reason, today)]
            /\ response' = Sent("updateBookingStatus", 200)
    /\ UNCHANGED <<nextId, today, reqs, slotVars, userVars>>

\* deleteBooking
deleteBooking(id) ==
    /\ IF id \notin DOMAIN bookings
       THEN /\ response' = Failed("deleteBooking", AppError(404))
            /\ UNCHANGED bookings
       ELSE /\ bookings' = [i \in DOMAIN bookings \ {id} |-> bookings[i]]
            /\ response' = Sent("deleteBooking", 204)
    /\ UNCHANGED <<nextId, today, reqs, slotVars, userVars>>

(***************************************************************************)
(* Requests of the booking specification                                   *)
(***************************************************************************)
BookingIds == 1..MaxBookings
NoBookings == [i \in {} |-> NULL]

\* well-formed bodies, one body lacking a required field, one with an unknown type
BookBodies ==
    [provider_id : Providers, appointment_date : Dates,
     start_time : MinuteTimes, end_time : MinuteTimes,
     required : {TRUE}, appointment_type : {NULL}]
    \cup [provider_id : {"P1"}, appointment_date : {1},
          start_time : {0}, end_time : {60},
          required : BOOLEAN, appointment_type : {"treatment", "surgery"}]

OptDates == {<<>>} \cup {<<d>> : d \in Dates}
OptTimes == {<<>>} \cup {<<t>> : t \in MinuteTimes}
NoPatch ==
    [provider_id |-> NULL, appointment_date |-> <<>>, start_time |-> <<>>,
     end_time |-> <<>>, appointment_type |-> NULL]
\* patches of the provider alone, of the date alone, of the times, of the type
BookPatches ==
    {[NoPatch EXCEPT !.provider_id = p] : p \in Providers \cup {NULL}}
    \cup {[NoPatch EXCEPT !.appointment_date = d] : d \in OptDates}
    \cup {[NoPatch EXCEPT !.start_time = s, !.end_time = e] : s \in OptTimes, e \in OptTimes}
    \cup {[NoPatch EXCEPT !.appointment_type = "surgery"]}

NoQuery == [asked |-> FALSE]
NoCall == [asked |-> FALSE]
\* no query of the slot engine has been made
SlotIdle ==
    /\ avail = NoQuery
    /\ call = NoCall
    /\ slotPc = "idle"
    /\ currentTime = 0
    /\ availableSlots = <<>>
NoUsers == <<>>
NoAuth == [asked |-> FALSE]
\* an empty users table
TokensIdle ==
    /\ clock = 0
    /\ nextToken = 1
    /\ issued = <<>>
UsersIdle ==
    /\ users = NoUsers
    /\ authResult = NoAuth
    /\ regs = <<>>
    /\ TokensIdle

BookInit ==
    /\ bookings = NoBookings
    /\ nextId = 1
    /\ today = 1
    /\ response = NoResponse
    /\ reqs = <<>>
    /\ SlotIdle
    /\ UsersIdle

CreateBookingRequest == \E u \in Users, body \in BookBodies : createBooking(u, body)
UpdateBookingRequest == \E id \in BookingIds, patch \in BookPatches : updateBooking(id, patch)
UpdateBookingStatusRequest ==
    \E u \in Users, id \in BookingIds, status \in validStatuses \cup {NULL, "archived"} :
        updateBookingStatus(u, id, status, NULL)
DeleteBookingRequest == \E id \in BookingIds : deleteBooking(id)

BookNext ==
    \/ CreateBookingRequest
    \/ UpdateBookingRequest
    \/ UpdateBookingStatusRequest
    \/ DeleteBookingRequest

BookSpec == BookInit /\ [][BookNext]_vars

(***************************************************************************)
(* Two createBooking requests racing: each awaits the availability query   *)
(* and then the insert, and the other request may run in between.          *)
(***************************************************************************)
Racers == {1, 2}
RaceBodies ==
    {b \in [provider_id : Providers, appointment_date : {1},
            start_time : MinuteTimes, end_time : MinuteTimes,
            required : {TRUE}, appointment_type : {NULL}] : b.start_time < b.end_time}

\* createBooking up to and including "await bookingModel.isSlotAvailable(...)"
RaceCheck(r) ==
    /\ reqs[r].pc = "start"
    /\ LET body == reqs[r].body IN
       IF reqs[r].user = NULL
       THEN reqs' = [reqs EXCEPT ![r].pc = "done",
                                 ![r].response = Failed("createBooking", AppError(401))]
       ELSE IF ~body.required
       THEN reqs' = [reqs EXCEPT ![r].pc = "done",
                                 ![r].response = Failed("createBooking", AppError(400))]
       ELSE IF body.appointment_type # NULL /\ body.appointment_type \notin appointmentTypes
       THEN reqs' = [reqs EXCEPT ![r].pc = "done",
                                 ![r].response = Failed("createBooking", AppError(400))]
       ELSE reqs' = [reqs EXCEPT ![r].pc = "checked",
                                 ![r].isAvailable =
                                     isSlotAvailable(bookings, body.provider_id,
                                                     body.appointment_date, body.start_time,
                                                     body.end_time, NoId)]
    /\ UNCHANGED <<bookVars, slotVars, userVars>>

\* createBooking from "if (!isAvailable)" to the response
RaceInsert(r) ==
    /\ reqs[r].pc = "checked"
    /\ LET body == reqs[r].body
           row == NewRow(reqs[r].user, body)
       IN
       IF ~reqs[r].isAvailable
       THEN /\ reqs' = [reqs EXCEPT ![r].pc = "done",
                                    ![r].response = Failed("createBooking", AppError(409))]
            /\ UNCHANGED <<bookings, nextId>>
       ELSE IF ~CheckConstraints(row, today)
       THEN /\ reqs' = [reqs EXCEPT ![r].pc = "done",
                                    ![r].response = Failed("createBooking", DatabaseError)]
            /\ UNCHANGED <<bookings, nextId>>
       ELSE /\ bookings' = bookings @@ (nextId :> row)
            /\ nextId' = nextId + 1
            /\ reqs' = [reqs EXCEPT ![r].pc = "done",
                                    ![r].response = Sent("createBooking", 201)]
    /\ UNCHANGED <<today, response, slotVars, userVars>>

RaceInit ==
    /\ bookings = NoBookings
    /\ nextId = 1
    /\ today = 1
    /\ response = NoResponse
    /\ reqs \in [Racers -> [pc : {"start"}, user : Users, body : RaceBodies,
                            isAvailable : {FALSE}, response : {NoResponse}]]
    /\ SlotIdle
    /\ UsersIdle

RaceNext == \E r \in Racers : RaceCheck(r) \/ RaceInsert(r)
RaceSpec == RaceInit /\ [][RaceNext]_vars

(***************************************************************************)
(* The slot engine on a stored table: one call of isSlotAvailable, or one  *)
(* call of getAvailableSlots run statement by statement                    *)
(***************************************************************************)
MaxRows == 1        \* rows of the table a slot query runs on
DefaultDuration == 30

ValidIntervals(times) == {iv \in times \X times : iv[1] < iv[2]}
\* the rows createBooking and updateBookingStatus can leave in the table
StoredRows(providers, dates, times) ==
    {[NewRow("U1", [provider_id |-> p, appointment_date |-> d,
                    start_time |-> iv[1], end_time |-> iv[2]])
        EXCEPT !.status = st] :
        p \in providers, d \in dates, iv \in ValidIntervals(times), st \in validStatuses}
Tables(rows) == UNION {[1..n -> rows] : n \in 0..MaxRows}

\* one call of Booking.isSlotAvailable
QuerySlot(provider_id, appointment_date, start_time, end_time, exclude_booking_id) ==
    /\ avail = NoQuery
    /\ avail' = [asked |-> TRUE, provider_id |-> provider_id,
                 appointment_date |-> appointment_date,
                 start_time |-> start_time, end_time |-> end_time,
                 exclude_booking_id |-> exclude_booking_id,
                 result |-> isSlotAvailable(bookings, provider_id, appointment_date,
                                            start_time, end_time, exclude_booking_id)]
    /\ UNCHANGED <<bookVars, reqs, call, slotPc, currentTime, availableSlots, userVars>>

AvailInit ==
    /\ bookings \in Tables(StoredRows(Providers \cup {NULL}, {1, MaxDate}, MinuteTimes))
    /\ nextId = MaxRows + 1
    /\ today = 1
    /\ response = NoResponse
    /\ reqs = <<>>
    /\ SlotIdle
    /\ UsersIdle

AvailNext ==
    \E p \in {"P1", NULL}, s \in MinuteTimes, e \in MinuteTimes, x \in 0..MaxRows :
        QuerySlot(p, 1, s, e, x)

AvailSpec == AvailInit /\ [][AvailNext]_vars

\* "HH:MM:SS".split(':').map(Number), of which hours and minutes are read: the
\* minutes since midnight of a stored TIME
ToMinutes(t) == t \div 60
\* a % n of JavaScript: the remainder has the sign of a
JsRem(a, n) == IF a >= 0 THEN a % n ELSE 0 - ((0 - a) % n)
\* the "HH:MM" string of a minute count: <<hours, minutes>>
TimeSlot(t) == <<t \div 60, JsRem(t, 60)>>

\* the rows "SELECT start_time, end_time ... WHERE provider_id = $1 AND
\* appointment_date = $2 AND status NOT IN ('cancelled', 'no_show')" returns
bookedSlotsOf(tbl, provider_id, appointment_date) ==
    {<<tbl[id].start_time, tbl[id].end_time>> :
        id \in {i \in DOMAIN tbl :
                    /\ SqlEq(tbl[i].provider_id, provider_id)
                    /\ tbl[i].appointment_date = appointment_date
                    /\ tbl[i].status \notin {"cancelled", "no_show"}}}

\* bookedSlots.rows.some(...) for the slot that starts at t
isBooked(bookedSlots, t, duration_minutes) ==
    \E b \in bookedSlots :
        t < ToMinutes(b[2]) /\ t + duration_minutes > ToMinutes(b[1])

\* The list and the loop variable of a call that never leaves the loop grow without
\* end; the model keeps the first MaxMinute + 1 slots of the list and holds
\* currentTime at -1 once it is negative.  A call that returns reaches neither.
Kept(slots) == IF Len(slots) > MaxMinute + 1 THEN SubSeq(slots, 1, MaxMinute + 1) ELSE slots
Held(t) == IF t < 0 THEN 0 - 1 ELSE t

\* the controller getAvailableSlots up to the first test of the loop; the query
\* string carries appointment_date and duration_minutes as <<>> (absent) or <<v>>
getAvailableSlots(provider_id, appointment_date, duration_minutes, working_hours_start, working_hours_end) ==
    /\ slotPc = "idle"
    /\ IF appointment_date = <<>>
       THEN /\ response' = Failed("getAvailableSlots", AppError(400))
            /\ UNCHANGED <<call, currentTime, availableSlots, slotPc>>
       ELSE /\ call' = [asked |-> TRUE, provider_id |-> provider_id,
                        appointment_date |-> appointment_date[1],
                        duration_minutes |-> OrElse(duration_minutes, DefaultDuration),
                        startTime |-> working_hours_start,
                        endTime |-> working_hours_end,
                        bookedSlots |-> bookedSlotsOf(bookings, provider_id,
                                                      appointment_date[1])]
            /\ currentTime' = working_hours_start
            /\ availableSlots' = <<>>
            /\ slotPc' = "test"
            /\ UNCHANGED response
    /\ UNCHANGED <<bookings, nextId, today, reqs, avail, userVars>>

\* while (currentTime + duration_minutes <= endTime), and the return
LoopTest ==
    /\ slotPc = "test"
    /\ IF currentTime + call.duration_minutes <= call.endTime
       THEN /\ slotPc' = "body"
            /\ UNCHANGED response
       ELSE /\ slotPc' = "done"
            /\ response' = Sent("getAvailableSlots", 200)
    /\ UNCHANGED <<bookings, nextId, today, reqs, avail, call, currentTime,
                   availableSlots, userVars>>

\* the body of the loop
LoopBody ==
    /\ slotPc = "body"
    /\ availableSlots' =
          IF isBooked(call.bookedSlots, currentTime, call.duration_minutes)
          THEN availableSlots
          ELSE Kept(Append(availableSlots, TimeSlot(currentTime)))
    /\ currentTime' = Held(currentTime + call.duration_minutes)
    /\ slotPc' = "test"
    /\ UNCHANGED <<bookVars, reqs, avail, call, userVars>>

SlotInit ==
    /\ bookings \in Tables(StoredRows({"P1", NULL}, {1, MaxDate}, AllTimes))
    /\ nextId = MaxRows + 1
    /\ today = 1
    /\ response = NoResponse
    /\ reqs = <<>>
    /\ SlotIdle
    /\ UsersIdle

SlotsRequest ==
    \E p \in {"P1", NULL}, d \in {<<>>} \cup {<<n>> : n \in (0 - 1)..MaxMinute},
       ws \in Minutes, we \in Minutes, date \in {<<>>, <<1>>} :
        getAvailableSlots(p, date, d, ws, we)

SlotNext == SlotsRequest \/ LoopTest \/ LoopBody
SlotSpec == SlotInit /\ [][SlotNext]_vars
\* the loop is synchronous JavaScript: once entered it keeps running
FairSlotSpec == SlotSpec /\ WF_vars(LoopTest) /\ WF_vars(LoopBody)

(***************************************************************************)
(* The users table: registration and tenant-scoped authentication          *)
(***************************************************************************)
MaxUsers == 4       \* rows ever inserted in the users table

pepper == "pepper"
Salts == {"s1", "s2"}
\* bcrypt.hash(password + pepper, salt): the hash carries its salt
bcryptHash(saltedPassword, salt) == [salt |-> salt, digest |-> <<salt, saltedPassword>>]
\* User.hashPassword, with the salt bcrypt.genSalt drew
hashPassword(password, salt) == bcryptHash(<<password, pepper>>, salt)
\* User.comparePassword: bcrypt.compare hashes again with the salt of the hash
comparePassword(password, hash) == bcryptHash(<<password, pepper>>, hash.salt) = hash

\* String.prototype.toLowerCase on the x-tenant-domain header (absent: undefined)
toLowerCase(header) ==
    IF header = "D1" THEN "d1" ELSE IF header = "D2" THEN "d2" ELSE header

\* the outcomes of a model method: a row, null, or an error thrown
NoError == ErrorNamed(NULL)
Returned(id) == [kind |-> "user", user |-> id, error |-> NoError]
ReturnedNull == [kind |-> "null", user |-> NoId, error |-> NoError]
Threw(err) == [kind |-> "throws", user |-> NoId, error |-> err]

\* SELECT id FROM users WHERE domain = $1 AND user_role = 'customeradmin'
AdminsOfDomain(domain) ==
    {i \in DOMAIN users : SqlEq(users[i].domain, domain) /\ users[i].user_role = "customeradmin"}
\* SELECT ... WHERE email = $1 AND customer_admin_id = $2 AND user_role = 'client'
ClientsOfAdmin(email, customer_admin_id) ==
    {i \in DOMAIN users : /\ users[i].email = email
                          /\ users[i].customer_admin_id = customer_admin_id
                          /\ users[i].user_role = "client"}
\* SELECT ... WHERE email = $1 AND user_role = $2
UsersOfRole(email, user_role) ==
    {i \in DOMAIN users : users[i].email = email /\ users[i].user_role = user_role}
\* const user = result.rows[0]; if (user && comparePassword(...)) return user; return null
\* (rows[0] is any of the rows selected)
Verified(rows, password) ==
    IF rows = {} THEN {ReturnedNull}
    ELSE {IF comparePassword(password, users[i].password) THEN Returned(i) ELSE ReturnedNull :
            i \in rows}

\* authenticate looking the client up by email alone, under any tenant
authenticate_anyTenant(email, password, user_role, subdomain) ==
    IF user_role = "client"
    THEN IF subdomain = NULL THEN {Threw(PlainError)}
         ELSE IF AdminsOfDomain(subdomain) = {} THEN {Threw(PlainError)}
         ELSE Verified(UsersOfRole(email, "client"), password)
    ELSE Verified(UsersOfRole(email, user_role), password)

\* User.authenticate: the set of its possible outcomes on the users table
authenticate(email, password, user_role, subdomain) ==
    IF user_role = "client"
    THEN IF subdomain = NULL THEN {Threw(PlainError)}
         ELSE IF AdminsOfDomain(subdomain) = {} THEN {Threw(PlainError)}
         ELSE UNION {Verified(ClientsOfAdmin(email, customer_admin_id), password) :
                        customer_admin_id \in AdminsOfDomain(subdomain)}
    ELSE Verified(UsersOfRole(email, user_role), password)

\* the row User.create inserts
UserRow(user, hash, customer_admin_id) ==
    [email |-> user.email, user_role |-> user.user_role, password |-> hash,
     domain |-> user.domain, customer_admin_id |-> customer_admin_id,
     password_reset_token |-> <<>>, password_reset_expires |-> <<>>,
     google_id |-> NULL]
Inserted(row) == [ok |-> TRUE, row |-> row, error |-> NoError]
Rejected(err) == [ok |-> FALSE, row |-> NULL, error |-> err]

\* the partial unique indexes of the users table: row may join the rows of tbl
unique_client_email_per_admin_dropped(tbl, row) == TRUE
unique_client_email_per_admin(tbl, row) ==
    row.user_role = "client" =>
        ~\E i \in DOMAIN tbl : /\ tbl[i].user_role = "client"
                              /\ tbl[i].email = row.email
                              /\ row.customer_admin_id # NoId
                              /\ tbl[i].customer_admin_id = row.customer_admin_id
unique_admin_email_per_domain(tbl, row) ==
    row.user_role = "customeradmin" =>
        ~\E i \in DOMAIN tbl : /\ tbl[i].user_role = "customeradmin"
                              /\ tbl[i].email = row.email
                              /\ SqlEq(tbl[i].domain, row.domain)
unique_domain_for_customer_admin_dropped(tbl, row) == TRUE
unique_domain_for_customer_admin(tbl, row) ==
    row.user_role = "customeradmin" =>
        ~\E i \in DOMAIN tbl : /\ tbl[i].user_role = "customeradmin"
                              /\ SqlEq(tbl[i].domain, row.domain)
\* the indexes an insert of row into tbl violates
ViolatedIndexes(tbl, row) ==
    {c \in {"unique_client_email_per_admin", "unique_admin_email_per_domain",
            "unique_domain_for_customer_admin"} :
        \/ c = "unique_client_email_per_admin" /\ ~unique_client_email_per_admin(tbl, row)
        \/ c = "unique_admin_email_per_domain" /\ ~unique_admin_email_per_domain(tbl, row)
        \/ c = "unique_domain_for_customer_admin" /\ ~unique_domain_for_customer_admin(tbl, row)}
\* INSERT INTO users ... RETURNING: the row, or the error 23505 naming a violated index
InsertUser(tbl, row) ==
    IF ViolatedIndexes(tbl, row) = {} THEN {Inserted(row)}
    ELSE {Rejected(UniqueViolation(c)) : c \in ViolatedIndexes(tbl, row)}

\* User.create giving a client to the first customeradmin of the table, whatever
\* the domain the header names
create_firstAdmin(user, subdomain, salt) ==
    LET admins == {i \in DOMAIN users : users[i].user_role = "customeradmin"}
    IN  IF user.password = NULL THEN {Rejected(PlainError)}
        ELSE IF user.user_role = "customeradmin"
        THEN IF user.domain = NULL THEN {Rejected(PlainError)}
             ELSE IF AdminsOfDomain(user.domain) # {} THEN {Rejected(PlainError)}
             ELSE InsertUser(users, UserRow(user, hashPassword(user.password, salt), NoId))
        ELSE IF user.user_role = "client"
        THEN IF subdomain = NULL THEN {Rejected(PlainError)}
             ELSE IF admins = {} THEN {Rejected(TenantNotFoundError)}
             ELSE InsertUser(users, UserRow([user EXCEPT !.domain = NULL],
                                            hashPassword(user.password, salt),
                                            CHOOSE i \in admins : \A j \in admins : i <= j))
        ELSE {Rejected(PlainError)}

\* User.create: the outcomes, each the row inserted or the error thrown
create(user, subdomain, salt) ==
    IF user.password = NULL THEN {Rejected(PlainError)}
    ELSE IF user.user_role = "customeradmin"
    THEN IF user.domain = NULL THEN {Rejected(PlainError)}
         ELSE IF AdminsOfDomain(user.domain) # {} THEN {Rejected(PlainError)}
         ELSE InsertUser(users, UserRow(user, hashPassword(user.password, salt), NoId))
    ELSE IF user.user_role = "client"
    THEN IF subdomain = NULL THEN {Rejected(PlainError)}
         ELSE IF AdminsOfDomain(subdomain) = {} THEN {Rejected(TenantNotFoundError)}
         ELSE UNION {InsertUser(users, UserRow([user EXCEPT !.domain = NULL],
                                               hashPassword(user.password, salt),
                                               customer_admin_id)) :
                        customer_admin_id \in AdminsOfDomain(subdomain)}
    ELSE {Rejected(PlainError)}

\* the catch block of AuthController.register: the error the handler rethrows
Reclassified(error) == IF error.code = "23505" THEN ValidationError ELSE error

\* AuthController.register
register(body, header, salt) ==
    LET subdomain == toLowerCase(header)
    IN  /\ authResult = NoAuth
        /\ \E made \in create(body, subdomain, salt) :
              IF made.ok
              THEN /\ Len(users) < MaxUsers
                   /\ users' = Append(users, made.row)
                   /\ response' = Sent("register", 201)
              ELSE /\ response' = Failed("register", Reclassified(made.error))
                   /\ UNCHANGED users
        /\ UNCHANGED <<bookings, nextId, today, reqs, slotVars, authResult, regs, tokenVars>>

\* validateUserInput: the error of the 400 response it sends, or NoError when it
\* calls next()
validateUserInput(body, header) ==
    IF body.email = NULL \/ body.password = NULL \/ body.user_role = NULL
    THEN ValidationError
    ELSE IF body.user_role = "customeradmin" /\ body.domain = NULL THEN ValidationError
    ELSE IF body.user_role = "client" /\ toLowerCase(header) = NULL THEN ValidationError
    ELSE NoError

\* POST /register: validateUserInput, then AuthController.register
PostRegister(body, header, salt) ==
    IF validateUserInput(body, header) # NoError
    THEN /\ authResult = NoAuth
         /\ response' = Failed("register", validateUserInput(body, header))
         /\ UNCHANGED <<bookings, nextId, today, reqs, slotVars, userVars>>
    ELSE register(body, header, salt)

\* AuthController.login
login(body, header) ==
    LET subdomain == toLowerCase(header)
    IN  /\ authResult = NoAuth
        /\ IF body.email = NULL \/ body.password = NULL \/ body.user_role = NULL
           THEN /\ response' = Failed("login", ValidationError)
                /\ UNCHANGED authResult
           ELSE \E out \in authenticate(body.email, body.password, body.user_role, subdomain) :
                /\ authResult' = [asked |-> TRUE, email |-> body.email,
                                  password |-> body.password, user_role |-> body.user_role,
                                  subdomain |-> subdomain, kind |-> out.kind,
                                  user |-> out.user, error |-> out.error]
                /\ response' = IF out.kind = "throws" THEN Failed("login", out.error)
                               ELSE IF out.kind = "null" THEN Failed("login", ValidationError)
                               ELSE Sent("login", 200)
        /\ UNCHANGED <<bookings, nextId, today, reqs, slotVars, users, regs, tokenVars>>

Headers == {NULL, "d1", "D2"}
RegisterBodies ==
    [email : {"a1"}, password : {"pw1"}, user_role : {"customeradmin"}, domain : {"d1", "d2"}]
    \cup [email : {"e1", "e2"}, password : {"pw1", "pw2"}, user_role : {"client"},
          domain : {NULL}]
    \cup {[email |-> "e1", password |-> "pw1", user_role |-> "administrator", domain |-> NULL],
          [email |-> "e1", password |-> NULL, user_role |-> "client", domain |-> NULL],
          [email |-> "a1", password |-> "pw1", user_role |-> "customeradmin", domain |-> NULL]}
LoginBodies ==
    [email : {"e1", "e2"}, password : {"pw1", "pw2"}, user_role : {"client"}]
    \cup [email : {"a1"}, password : {"pw1", "pw2"}, user_role : {"customeradmin"}]
    \cup {[email |-> NULL, password |-> "pw1", user_role |-> "client"]}

AuthInit ==
    /\ bookings = NoBookings
    /\ nextId = 1
    /\ today = 1
    /\ response = NoResponse
    /\ reqs = <<>>
    /\ SlotIdle
    /\ UsersIdle

RegisterRequest ==
    \E body \in RegisterBodies, header \in Headers, salt \in Salts :
        PostRegister(body, header, salt)
LoginRequest == \E body \in LoginBodies, header \in Headers : login(body, header)
AuthNext == RegisterRequest \/ LoginRequest
AuthSpec == AuthInit /\ [][AuthNext]_vars

\* registrations alone, with one password and one salt
RegBodies == {body \in RegisterBodies : body.password \in {"pw1", NULL}}
RegSalts == {"s1"}
RegNext ==
    \E body \in RegBodies, header \in Headers, salt \in RegSalts :
        PostRegister(body, header, salt)
RegSpec == AuthInit /\ [][RegNext]_vars

(***************************************************************************)
(* Password reset: forgotPassword issues a token, resetPassword consumes it *)
(***************************************************************************)
MaxTokens == 2      \* reset tokens issued in one run
MaxClock == 20      \* the last minute of the modelled clock
ClockStep == 5      \* minutes the clock advances in one step
TokenTTL == 15      \* minutes a reset token lives

\* crypto.createHash("sha256").update(token).digest("hex")
sha256(token) == <<"sha256", token>>

\* createPasswordResettoken that leaves a row its token when it already has one
createPasswordResettoken_keepsFirst(tbl, email, token, t) ==
    [i \in DOMAIN tbl |->
        IF tbl[i].email = email /\ tbl[i].password_reset_token = <<>>
        THEN [tbl[i] EXCEPT !.password_reset_token = sha256(token),
                            !.password_reset_expires = <<t + TokenTTL>>]
        ELSE tbl[i]]
\* User.createPasswordResettoken: the table after UPDATE users ... WHERE email = $3,
\* with the token crypto.randomBytes drew and the clock t
createPasswordResettoken(tbl, email, token, t) ==
    [i \in DOMAIN tbl |->
        IF tbl[i].email = email
        THEN [tbl[i] EXCEPT !.password_reset_token = sha256(token),
                            !.password_reset_expires = <<t + TokenTTL>>]
        ELSE tbl[i]]
\* User.clearResetToken: the table after UPDATE users ... WHERE id = $1
clearResetToken(tbl, userId) ==
    [tbl EXCEPT ![userId].password_reset_token = <<>>,
                ![userId].password_reset_expires = <<>>]
\* findPasswordHashToken without the test of the expiry
findPasswordHashToken_unexpiring(tbl, passwordResetToken, t) ==
    {i \in DOMAIN tbl : tbl[i].password_reset_token = passwordResetToken}
\* User.findPasswordHashToken: the rows of the SELECT at the clock t
findPasswordHashToken(tbl, passwordResetToken, t) ==
    {i \in DOMAIN tbl : /\ tbl[i].password_reset_token = passwordResetToken
                        /\ tbl[i].password_reset_expires # <<>>
                        /\ tbl[i].password_reset_expires[1] > t}
\* User.resetPassword: the table after UPDATE users ... WHERE id = $2
User_resetPassword(tbl, userId, newPassword, salt) ==
    [tbl EXCEPT ![userId].password = hashPassword(newPassword, salt),
                ![userId].password_reset_token = <<>>,
                ![userId].password_reset_expires = <<>>]
\* User.getCustomerAdminByEmailAndDomain: the rows of the SELECT
AdminsByEmailAndDomain(email, domain) ==
    {i \in DOMAIN users : /\ users[i].email = email
                          /\ SqlEq(users[i].domain, domain)
                          /\ users[i].user_role = "customeradmin"}

\* forgotPassword up to "if (!user)": the error thrown, or the rows of the lookup
FoundRows(rows) == [error |-> NoError, rows |-> rows]
LookupFailed(err) == [error |-> err, rows |-> {}]
ForgotLookup(body, subdomain) ==
    IF body.email = NULL THEN LookupFailed(ValidationError)
    ELSE IF body.user_role = NULL THEN LookupFailed(ValidationError)
    ELSE IF body.user_role = "client"
    THEN IF subdomain = NULL THEN LookupFailed(ValidationError)
         ELSE IF AdminsOfDomain(subdomain) = {} THEN LookupFailed(NotFoundError)
         ELSE FoundRows(UNION {ClientsOfAdmin(body.email, a) : a \in AdminsOfDomain(subdomain)})
    ELSE IF body.user_role = "customeradmin"
    THEN IF body.domain = NULL THEN LookupFailed(ValidationError)
         ELSE FoundRows(AdminsByEmailAndDomain(body.email, body.domain))
    ELSE IF body.user_role = "administrator"
    THEN FoundRows(UsersOfRole(body.email, "administrator"))
    ELSE FoundRows({})

\* AuthController.forgotPassword; delivered tells whether sendPasswordReset succeeds
forgotPassword(body, header, delivered) ==
    LET found == ForgotLookup(body, toLowerCase(header))
    IN  /\ IF found.error # NoError
           THEN /\ response' = Failed("forgotPassword", found.error)
                /\ UNCHANGED <<users, nextToken, issued>>
           ELSE IF found.rows = {}
           THEN /\ response' = Failed("forgotPassword", NotFoundError)
                /\ UNCHANGED <<users, nextToken, issued>>
           ELSE \E user \in found.rows :
                LET stored == createPasswordResettoken(users, users[user].email,
                                                       nextToken, clock)
                IN  /\ nextToken <= MaxTokens
                    /\ nextToken' = nextToken + 1
                    /\ issued' = Append(issued, [email |-> users[user].email,
                                                 user |-> user,
                                                 token |-> nextToken, at |-> clock,
                                                 used |-> FALSE])
                    /\ IF delivered
                       THEN /\ users' = stored
                            /\ response' = Sent("forgotPassword", 200)
                       ELSE /\ users' = clearResetToken(stored, user)
                            /\ response' = Failed("forgotPassword", EmailError)
        /\ UNCHANGED <<bookings, nextId, today, reqs, slotVars, authResult, regs, clock>>

\* AuthController.resetPassword; token is <<>> (absent) or <<t>>
resetPassword(token, newPassword, salt) ==
    /\ IF token = <<>> \/ newPassword = NULL
       THEN /\ response' = Failed("resetPassword", ValidationError)
            /\ UNCHANGED <<users, issued>>
       ELSE IF findPasswordHashToken(users, sha256(token[1]), clock) = {}
       THEN /\ response' = Failed("resetPassword", NotFoundError)
            /\ UNCHANGED <<users, issued>>
       ELSE \E user \in findPasswordHashToken(users, sha256(token[1]), clock) :
            /\ users' = User_resetPassword(users, user, newPassword, salt)
            /\ response' = Sent("resetPassword", 200)
            /\ issued' = [k \in DOMAIN issued |->
                             IF issued[k].token = token[1]
                             THEN [issued[k] EXCEPT !.used = TRUE] ELSE issued[k]]
    /\ UNCHANGED <<bookings, nextId, today, reqs, slotVars, authResult, regs, clock,
                   nextToken>>

\* time passes
Tick ==
    /\ clock + ClockStep <= MaxClock
    /\ clock' = clock + ClockStep
    /\ UNCHANGED <<bookVars, reqs, slotVars, users, authResult, regs, nextToken, issued>>

\* users tables registrations leave: two tenants whose customeradmins share an
\* email and a client of the first, or one tenant and its client
AdminOf(domain) ==
    UserRow([email |-> "a1", user_role |-> "customeradmin", domain |-> domain],
            hashPassword("pw1", "s1"), NoId)
ClientOf(email, customer_admin_id) ==
    UserRow([email |-> email, user_role |-> "client", domain |-> NULL],
            hashPassword("pw1", "s1"), customer_admin_id)
ResetTables ==
    {<<AdminOf("d1"), AdminOf("d2"), ClientOf("e1", 1)>>,
     <<AdminOf("d1"), ClientOf("e1", 1)>>}
ForgotBodies ==
    [email : {"e1", "e2"}, user_role : {"client"}, domain : {NULL}]
    \cup [email : {"a1"}, user_role : {"customeradmin"}, domain : {"d1", NULL}]
    \cup {[email |-> "e1", user_role |-> "administrator", domain |-> NULL],
          [email |-> NULL, user_role |-> "client", domain |-> NULL]}
PresentedTokens == {<<>>} \cup {<<t>> : t \in 1..MaxTokens}

ResetInit ==
    /\ bookings = NoBookings
    /\ nextId = 1
    /\ today = 1
    /\ response = NoResponse
    /\ reqs = <<>>
    /\ SlotIdle
    /\ users \in ResetTables
    /\ authResult = NoAuth
    /\ regs = <<>>
    /\ TokensIdle

ForgotPasswordRequest ==
    \E body \in ForgotBodies, header \in Headers, delivered \in BOOLEAN :
        forgotPassword(body, header, delivered)
ResetPasswordRequest == \E token \in PresentedTokens : resetPassword(token, "pw2", "s2")
ResetNext == ForgotPasswordRequest \/ ResetPasswordRequest \/ Tick
ResetSpec == ResetInit /\ [][ResetNext]_vars

(***************************************************************************)
(* Two customeradmin registrations in flight: the pre-check of User.create *)
(* and its INSERT are separate queries                                     *)
(***************************************************************************)
AdminRaceBodies ==
    [email : {"a1", "a2"}, password : {"pw1"}, user_role : {"customeradmin"},
     domain : {"d1", "d2"}]

\* register up to the answer of the domain pre-check of User.create
RegCheck(r) ==
    /\ regs[r].pc = "start"
    /\ regs' = [regs EXCEPT ![r].pc = "checked",
                            ![r].domainTaken = (AdminsOfDomain(regs[r].body.domain) # {})]
    /\ UNCHANGED <<bookVars, reqs, slotVars, users, authResult, tokenVars>>

\* register from the answer of the pre-check on: the throw, or the INSERT, and the
\* response
RegInsert(r) ==
    /\ regs[r].pc = "checked"
    /\ IF regs[r].domainTaken
       THEN /\ regs' = [regs EXCEPT ![r].pc = "done",
                                    ![r].response = Failed("register", PlainError)]
            /\ UNCHANGED users
       ELSE \E made \in InsertUser(users, UserRow(regs[r].body,
                                                  hashPassword(regs[r].body.password, "s1"),
                                                  NoId)) :
              IF made.ok
              THEN /\ Len(users) < MaxUsers
                   /\ users' = Append(users, made.row)
                   /\ regs' = [regs EXCEPT ![r].pc = "done",
                                           ![r].response = Sent("register", 201)]
              ELSE /\ regs' = [regs EXCEPT ![r].pc = "done",
                                           ![r].response =
                                               Failed("register", Reclassified(made.error))]
                   /\ UNCHANGED users
    /\ UNCHANGED <<bookVars, reqs, slotVars, authResult, tokenVars>>

AdminRaceInit ==
    /\ bookings = NoBookings
    /\ nextId = 1
    /\ today = 1
    /\ response = NoResponse
    /\ reqs = <<>>
    /\ SlotIdle
    /\ users = NoUsers
    /\ authResult = NoAuth
    /\ regs \in [Racers -> [pc : {"start"}, body : AdminRaceBodies,
                            domainTaken : {FALSE}, response : {NoResponse}]]
    /\ TokensIdle

AdminRaceNext == \E r \in Racers : RegCheck(r) \/ RegInsert(r)
AdminRaceSpec == AdminRaceInit /\ [][AdminRaceNext]_vars

(***************************************************************************)
(* Properties of the bookings table                                        *)
(***************************************************************************)
\* half-open intervals [s1, e1) and [s2, e2) overlap
Overlap(s1, e1, s2, e2) == s1 < e2 /\ s2 < e1
Active(row) == row.status \in ActiveStatuses
\* two rows of one provider and one date, both active, with overlapping intervals
DoubleBooked(a, b) ==
    /\ a.provider_id # NULL
    /\ a.provider_id = b.provider_id
    /\ a.appointment_date = b.appointment_date
    /\ Active(a) /\ Active(b)
    /\ Overlap(a.start_time, a.end_time, b.start_time, b.end_time)

\* C1: when two createBooking requests for the same provider, the same date and
\* overlapping intervals have run concurrently to their end, exactly one of them
\* has succeeded and the table holds at most one active booking in that interval.
C1_ExactlyOneRacerWins ==
    (/\ \A r \in Racers : reqs[r].pc = "done"
     /\ reqs[1].body.provider_id = reqs[2].body.provider_id
     /\ reqs[1].body.appointment_date = reqs[2].body.appointment_date
     /\ Overlap(reqs[1].body.start_time, reqs[1].body.end_time,
                reqs[2].body.start_time, reqs[2].body.end_time))
    => /\ Cardinality({r \in Racers : reqs[r].response.status = 201}) = 1
       /\ \A i, j \in DOMAIN bookings : i # j => ~DoubleBooked(bookings[i], bookings[j])

\* C2: in every state reached by createBooking, updateBooking, updateBookingStatus
\* and deleteBooking requests run one at a time, no two distinct active bookings of
\* the same provider and date overlap.
C2_NoDoubleBooking ==
    \A i, j \in DOMAIN bookings : i # j => ~DoubleBooked(bookings[i], bookings[j])

\* an active booking of the provider and date of the request overlaps [s, e)
Occupied(tbl, provider_id, appointment_date, s, e, own) ==
    \E id \in DOMAIN tbl \ {own} :
        /\ tbl[id].provider_id = provider_id
        /\ tbl[id].appointment_date = appointment_date
        /\ Active(tbl[id])
        /\ Overlap(tbl[id].start_time, tbl[id].end_time, s, e)
\* an active booking of that provider and date ends exactly at s
EndsAt(tbl, provider_id, appointment_date, s) ==
    \E id \in DOMAIN tbl :
        /\ tbl[id].provider_id = provider_id
        /\ tbl[id].appointment_date = appointment_date
        /\ Active(tbl[id])
        /\ tbl[id].end_time = s
WellFormed(body) ==
    /\ body.required
    /\ body.appointment_type \in appointmentTypes \cup {NULL}
    /\ body.provider_id # NULL

\* C4: a createBooking request whose interval overlaps an active booking of the same
\* provider and date is answered with HTTP 409 and leaves the table unchanged; a
\* request for the free interval that starts exactly when an existing booking ends
\* is answered with 201 and its booking is stored.
C4_ConflictIs409 ==
    [][\A u \in Users, body \in BookBodies :
          (createBooking(u, body) /\ WellFormed(body))
          => /\ Occupied(bookings, body.provider_id, body.appointment_date,
                         body.start_time, body.end_time, NoId)
                => (response'.status = 409 /\ bookings' = bookings)
             /\ (/\ EndsAt(bookings, body.provider_id, body.appointment_date, body.start_time)
                 /\ body.start_time < body.end_time
                 /\ body.appointment_date >= today
                 /\ ~Occupied(bookings, body.provider_id, body.appointment_date,
                              body.start_time, body.end_time, NoId))
                => (response'.status = 201 /\ nextId \in DOMAIN bookings')]_vars

\* the patch names a provider, a date, a start or an end
TouchesSchedule(patch) ==
    \/ patch.provider_id # NULL
    \/ patch.appointment_date # <<>>
    \/ patch.start_time # <<>>
    \/ patch.end_time # <<>>

\* C5: an updateBooking request whose patch names a date, a start, an end or a
\* provider, and whose patched booking would overlap another active booking of its
\* provider and date, is rejected with the conflict error and changes nothing.
C5_UpdateRechecksProvider ==
    [][\A id \in DOMAIN bookings, patch \in BookPatches :
          (/\ updateBooking(id, patch)
           /\ TouchesSchedule(patch)
           /\ patch.appointment_type = NULL
           /\ LET new == Patched(bookings[id], patch)
              IN  Occupied(bookings, new.provider_id, new.appointment_date,
                           new.start_time, new.end_time, id))
          => (response'.code = 409 /\ bookings' = bookings)]_vars

\* the edges of the booking life cycle
StatusEdges ==
    {<<"pending", "confirmed">>, <<"confirmed", "completed">>,
     <<"pending", "cancelled">>, <<"confirmed", "cancelled">>,
     <<"pending", "no_show">>, <<"confirmed", "no_show">>}

\* C6: a booking's status changes only along the edges of the life cycle; the status
\* of a cancelled, completed or no_show booking never changes again.
C6_StatusEdgesOnly ==
    [][\A id \in DOMAIN bookings \cap DOMAIN bookings' :
          bookings'[id].status # bookings[id].status
          => <<bookings[id].status, bookings'[id].status>> \in StatusEdges]_vars

(***************************************************************************)
(* Properties of the slot engine                                           *)
(***************************************************************************)
\* a booking other than the excluded one, of the provider and date asked for and
\* with a status in {pending, confirmed, completed}, overlaps the interval asked for
Blocked(q) ==
    \E id \in DOMAIN bookings :
        /\ id # q.exclude_booking_id
        /\ bookings[id].provider_id = q.provider_id
        /\ bookings[id].appointment_date = q.appointment_date
        /\ bookings[id].status \in {"pending", "confirmed", "completed"}
        /\ bookings[id].start_time < q.end_time
        /\ q.start_time < bookings[id].end_time

\* C3 as stated: isSlotAvailable returns false if and only if such a booking exists,
\* for every provider argument, the null provider included.
C3_AvailableIffNotBlocked ==
    avail.asked => (avail.result = FALSE <=> Blocked(avail))

\* C3 as amended: for a provider that is not null, isSlotAvailable returns false if
\* and only if a booking other than the excluded one, of that provider and date and
\* with a status in {pending, confirmed, completed}, overlaps the interval.
C3_AvailableIffNotBlockedForProvider ==
    (avail.asked /\ avail.provider_id # NULL) => (avail.result = FALSE <=> Blocked(avail))

\* a call for a provider was refused because of an overlapping booking
C3_Witness ==
    /\ avail.asked
    /\ avail.provider_id # NULL
    /\ avail.result = FALSE
    /\ Blocked(avail)

\* the candidate start times of a call: workStart + k * d with t + d <= workEnd
Grid(c) ==
    {t \in c.startTime..c.endTime :
        (t - c.startTime) % c.duration_minutes = 0 /\ t + c.duration_minutes <= c.endTime}
\* the candidates whose interval [t, t + d) overlaps no active booking
FreeGrid(c) ==
    {t \in Grid(c) :
        ~Occupied(bookings, c.provider_id, c.appointment_date,
                  t * 60, (t + c.duration_minutes) * 60, NoId)}
MinuteOf(slot) == slot[1] * 60 + slot[2]

\* C7: a call of getAvailableSlots for a provider, with a duration of at least one
\* minute, returns in ascending order exactly the candidate times whose interval
\* overlaps no active booking of that provider and date.
C7_SlotsAreTheFreeGrid ==
    (slotPc = "done" /\ call.provider_id # NULL /\ call.duration_minutes >= 1)
    => /\ {MinuteOf(availableSlots[i]) : i \in 1..Len(availableSlots)} = FreeGrid(call)
       /\ \A i, j \in 1..Len(availableSlots) :
              i < j => MinuteOf(availableSlots[i]) < MinuteOf(availableSlots[j])

\* C8: every call of getAvailableSlots returns.
C8_SlotsCallReturns == (slotPc \in {"test", "body"}) ~> (slotPc = "done")

(***************************************************************************)
(* Properties of authentication                                            *)
(***************************************************************************)
ClientCall == authResult.asked /\ authResult.user_role = "client"
\* the customeradmin rows of the domain the header of the call names
CalledTenant == {i \in DOMAIN users : /\ users[i].user_role = "customeradmin"
                                      /\ users[i].domain = authResult.subdomain}
\* the row is a client with the email and a hash that verifies the password of the call
HoldsCredentials(i) ==
    /\ users[i].user_role = "client"
    /\ users[i].email = authResult.email
    /\ comparePassword(authResult.password, users[i].password)
\* a user is returned only if it is a client of the tenant of the header whose email
\* matches and whose stored hash verifies the password
ReturnsOnlyOwnClient ==
    authResult.kind = "user"
    => /\ authResult.user \in DOMAIN users
       /\ HoldsCredentials(authResult.user)
       /\ users[authResult.user].customer_admin_id \in CalledTenant

C10_UnknownTenantIsTenantNotFound ==
    (ClientCall /\ authResult.subdomain # NULL)
    => /\ CalledTenant = {}
          => (authResult.kind = "throws" /\ authResult.error.name = "TenantNotFoundError")
       /\ (/\ CalledTenant # {}
           /\ \A c \in DOMAIN users :
                  users[c].customer_admin_id \in CalledTenant => ~HoldsCredentials(c))
          => authResult.kind = "null"

(***************************************************************************)
(* Properties of registration                                              *)
(***************************************************************************)
ClientBodies == {body \in RegBodies : body.user_role = "client"}
AdminBodies == {body \in RegBodies : body.user_role = "customeradmin"}
\* the step appended one row to the users table
Created == Len(users') = Len(users) + 1 /\ SubSeq(users', 1, Len(users)) = users
NewUser == users'[Len(users')]

C12_NoHeaderIsTenantNotFound ==
    [][\A body \in ClientBodies, salt \in RegSalts :
        (body.password # NULL /\ PostRegister(body, NULL, salt))
        => /\ response'.type = "TenantNotFoundError"
           /\ users' = users]_vars

\* C14: a registration of a customeradmin with a domain another customeradmin has
\* fails with an error kind of its own, neither the generic failure nor the
\* email-duplicate error, and creates no user.
C14_DomainTakenIsItsOwnError ==
    [][\A body \in AdminBodies, header \in Headers, salt \in RegSalts :
        (/\ validateUserInput(body, header) = NoError
         /\ AdminsOfDomain(body.domain) # {}
         /\ PostRegister(body, header, salt))
        => /\ response'.type \notin {"InternalServerError", "DuplicateEmailError"}
           /\ response'.status \in 400..499
           /\ users' = users]_vars

\* no two clients share both email and customer_admin_id
ClientsAreUniquePerTenant ==
    \A i, j \in DOMAIN users :
        (/\ i # j
         /\ users[i].user_role = "client" /\ users[j].user_role = "client"
         /\ users[i].email = users[j].email)
        => users[i].customer_admin_id # users[j].customer_admin_id

\* C15: no two clients share both email and tenant; a registration of a client whose
\* email a client of the header's tenant already has fails with status 400 and
\* creates no user; when no client of that tenant has the email, the registration
\* creates the client, whatever clients of other tenants have the email.
C15_ClientEmailUniquePerTenant ==
    /\ []ClientsAreUniquePerTenant
    /\ [][\A body \in ClientBodies, header \in Headers, salt \in RegSalts :
            (/\ validateUserInput(body, header) = NoError
             /\ AdminsOfDomain(toLowerCase(header)) # {}
             /\ PostRegister(body, header, salt))
            => \A customer_admin_id \in AdminsOfDomain(toLowerCase(header)) :
                  IF ClientsOfAdmin(body.email, customer_admin_id) # {}
                  THEN response'.status = 400 /\ users' = users
                  ELSE /\ response'.status = 201
                       /\ Created
                       /\ NewUser.email = body.email
                       /\ NewUser.customer_admin_id = customer_admin_id]_vars

\* two tenants each have a client with one email, and a registration of that email
\* has just been refused with status 400
C15_Witness ==
    /\ response.op = "register"
    /\ response.status = 400
    /\ \E i, j \in DOMAIN users :
           /\ users[i].user_role = "client" /\ users[j].user_role = "client"
           /\ users[i].email = users[j].email
           /\ users[i].customer_admin_id # users[j].customer_admin_id

\* C16: a registration with role administrator and a password creates an
\* administrator, with or without a tenant header, and without a domain.
C16_AdministratorIsCreated ==
    [][\A body \in RegBodies, header \in Headers, salt \in RegSalts :
        (/\ body.user_role = "administrator"
         /\ body.password # NULL
         /\ PostRegister(body, header, salt))
        => /\ response'.status = 201
           /\ Created
           /\ NewUser.user_role = "administrator"]_vars

\* C13: at most one customeradmin has a given domain, and of two registrations with
\* one domain, run one after the other or with both pre-checks before either
\* insert, exactly one creates a user.
C13_OneAdminPerDomain ==
    /\ \A i, j \in DOMAIN users :
           (/\ i # j
            /\ users[i].user_role = "customeradmin" /\ users[j].user_role = "customeradmin")
           => users[i].domain # users[j].domain
    /\ (/\ \A r \in Racers : regs[r].pc = "done"
        /\ regs[1].body.domain = regs[2].body.domain)
       => /\ Cardinality({r \in Racers : regs[r].response.status = 201}) = 1
          /\ Len(users) = 1

\* two registrations of one domain both passed the pre-check, and the unique index
\* stopped the second insert
C13_Witness ==
    /\ \A r \in Racers : regs[r].pc = "done" /\ ~regs[r].domainTaken
    /\ regs[1].body.domain = regs[2].body.domain
    /\ regs[1].body.email # regs[2].body.email
    /\ \E r \in Racers : regs[r].response.status = 400

(***************************************************************************)
(* Properties of password reset                                            *)
(***************************************************************************)
KnownTokens == PresentedTokens \ {<<>>}
\* the rows that hold the digest of the token
Holders(tbl, token) == {i \in DOMAIN tbl : tbl[i].password_reset_token = sha256(token)}
\* the entries of the log for the token
Issues(token) == {k \in DOMAIN issued : issued[k].token = token}
Rejects == response'.status = 404 /\ response'.type = "NotFoundError" /\ users' = users

\* C17: once a resetPassword request has succeeded with a token, every later
\* resetPassword request presenting that token fails with not-found and changes no
\* user.
C17_TokenIsOneTimeUse ==
    [][\A token \in KnownTokens :
        (/\ \E k \in Issues(token[1]) : issued[k].used
         /\ resetPassword(token, "pw2", "s2"))
        => Rejects]_vars

\* C18: when the reset email cannot be sent, forgotPassword reports an EmailError
\* and no row holds the digest of the token the request issued.
C18_FailedDeliveryClearsToken ==
    [][\A body \in ForgotBodies, header \in Headers :
        (forgotPassword(body, header, FALSE) /\ Len(issued') > Len(issued))
        => /\ response'.type = "EmailError"
           /\ Holders(users', nextToken) = {}]_vars

Superseded(k) == \E j \in DOMAIN issued : j > k /\ issued[j].email = issued[k].email

\* C20: a new token for an email replaces the previous one: when forgotPassword has
\* issued and sent a token, every row with that email holds its digest; no row
\* holds the digest of a token issued earlier for the email, and a resetPassword
\* request presenting such a token is refused.
C20_NewTokenReplacesOld ==
    /\ [](\A k \in DOMAIN issued : Superseded(k) => Holders(users, issued[k].token) = {})
    /\ [][(Len(issued') = Len(issued) + 1 /\ response'.status = 200)
           => \A i \in DOMAIN users' :
                 users'[i].email = issued'[Len(issued')].email
                 => users'[i].password_reset_token = sha256(issued'[Len(issued')].token)]_vars
    /\ [][\A token \in KnownTokens :
            (/\ \E k \in Issues(token[1]) : Superseded(k)
             /\ resetPassword(token, "pw2", "s2"))
            => Rejects]_vars

\* two tokens were issued for one email, the second is stored and has not expired,
\* and a resetPassword request has just been refused
C20_Witness ==
    /\ Len(issued) = 2
    /\ issued[1].email = issued[2].email
    /\ Holders(users, issued[2].token) # {}
    /\ clock < issued[2].at + 15
    /\ response.op = "resetPassword"
    /\ response.status = 404

(***************************************************************************)
(* Status updates and patches of stored bookings while the days pass       *)
(***************************************************************************)
\* midnight: CURRENT_DATE moves to the next day
AdvanceDay ==
    /\ today < MaxDate
    /\ today' = today + 1
    /\ UNCHANGED <<bookings, nextId, response, reqs, slotVars, userVars>>

\* the rows createBooking inserts
PendingRows(providers, dates, times) ==
    {row \in StoredRows(providers, dates, times) : row.status = "pending"}
\* the users the protect middleware lets through
Actors == {"U1", "U2"}
Reasons == {NULL, "", "r1"}

\* patches that leave the slot alone, and one that moves the booking to the last day
StatusPatches ==
    {NoPatch, [NoPatch EXCEPT !.provider_id = "P2"],
     [NoPatch EXCEPT !.appointment_date = <<MaxDate>>]}

\* one booking is stored
StatusInit ==
    /\ bookings \in [{1} -> PendingRows({"P1"}, Dates, {0, 60})]
    /\ nextId = 2
    /\ today = 1
    /\ response = NoResponse
    /\ reqs = <<>>
    /\ SlotIdle
    /\ UsersIdle

StatusRequest ==
    \E u \in Actors, id \in BookingIds, status \in validStatuses \cup {NULL, "archived"},
       reason \in Reasons :
        updateBookingStatus(u, id, status, reason)
StatusPatch ==
    \E id \in BookingIds, patch \in StatusPatches : updateBooking(id, patch)
StatusNext == StatusRequest \/ StatusPatch \/ AdvanceDay
StatusSpec == StatusInit /\ [][StatusNext]_vars

(***************************************************************************)
(* Properties of status updates                                            *)
(***************************************************************************)
\* the value x || null stores
Supplied(x) == IF x = "" THEN NULL ELSE x

\* C22: an updateBookingStatus request that sets a booking's status to cancelled
\* stores cancelled_at = the server time, cancelled_by = the id of the acting user
\* and cancellation_reason = the reason supplied, NULL when none is.
C22_CancellationIsRecorded ==
    [][\A u \in Actors, id \in BookingIds, reason \in Reasons :
          (updateBookingStatus(u, id, "cancelled", reason) /\ response'.status = 200)
          => /\ bookings'[id].status = "cancelled"
             /\ bookings'[id].cancelled_at = <<today>>
             /\ bookings'[id].cancelled_by = u
             /\ bookings'[id].cancellation_reason = Supplied(reason)]_vars

\* a booking has just been cancelled by U2 for the reason r1
C22_Witness ==
    /\ response.op = "updateBookingStatus"
    /\ response.status = 200
    /\ \E id \in DOMAIN bookings :
          /\ bookings[id].status = "cancelled"
          /\ bookings[id].cancelled_at = <<today>>
          /\ bookings[id].cancelled_by = "U2"
          /\ bookings[id].cancellation_reason = "r1"

\* C28: an updateBookingStatus request that moves a pending or confirmed booking to
\* completed, cancelled or no_show succeeds whatever the current date is.
C28_PastBookingCanBeClosed ==
    [][\A u \in Actors, id \in DOMAIN bookings, status \in {"completed", "cancelled", "no_show"} :
          (/\ updateBookingStatus(u, id, status, NULL)
           /\ bookings[id].status \in {"pending", "confirmed"})
          => /\ response'.status = 200
             /\ bookings'[id].status = status]_vars

\* C30: in every state a booking's cancelled_at is set if and only if its status is
\* cancelled.
C30_CancelledAtIffCancelled ==
    \A id \in DOMAIN bookings :
        bookings[id].cancelled_at # <<>> <=> bookings[id].status = "cancelled"

(***************************************************************************)
(* Patches of bookings that share providers and dates                      *)
(***************************************************************************)
\* no two rows of the table are double-booked
Disjoint(tbl) == \A i, j \in DOMAIN tbl : i # j => ~DoubleBooked(tbl[i], tbl[j])
\* patches of the start, of the end, of the date, and of the provider with the start
ConflictPatches ==
    {[NoPatch EXCEPT !.start_time = <<0>>],
     [NoPatch EXCEPT !.end_time = <<120>>],
     [NoPatch EXCEPT !.appointment_date = <<1>>],
     [NoPatch EXCEPT !.appointment_date = <<MaxDate>>],
     [NoPatch EXCEPT !.provider_id = "P1", !.start_time = <<60>>],
     [NoPatch EXCEPT !.provider_id = "P2"]}

\* the tables createBooking requests run one at a time leave
PatchInit ==
    /\ bookings \in {tbl \in [BookingIds -> PendingRows(Providers, {1, MaxDate}, {0, 60, 120})] :
                        Disjoint(tbl)}
    /\ nextId = MaxBookings + 1
    /\ today = 1
    /\ response = NoResponse
    /\ reqs = <<>>
    /\ SlotIdle
    /\ UsersIdle

PatchNext == \E id \in BookingIds, patch \in ConflictPatches : updateBooking(id, patch)
PatchSpec == PatchInit /\ [][PatchNext]_vars

\* the availability check updateBooking makes for the patch
ChecksSlot(patch) ==
    patch.appointment_date # <<>> \/ patch.start_time # <<>> \/ patch.end_time # <<>>
CheckPasses(id, patch) ==
    isSlotAvailable(bookings, OrNull(patch.provider_id, bookings[id].provider_id),
                    OrElse(patch.appointment_date, bookings[id].appointment_date),
                    OrElse(patch.start_time, bookings[id].start_time),
                    OrElse(patch.end_time, bookings[id].end_time), id)

IntakeBodies ==
    {b \in [provider_id : {"P1", NULL}, appointment_date : {1},
            start_time : {0}, end_time : {60, 120},
            required : {TRUE}, appointment_type : {NULL},
            status : {NULL, "confirmed"}, customer_id : {NULL, "U3"}] :
        (b.status = NULL) <=> (b.customer_id = NULL)}

IntakeInit ==
    /\ bookings = NoBookings
    /\ nextId = 1
    /\ today = 1
    /\ response = NoResponse
    /\ reqs \in [Racers -> [pc : {"start"}, user : Actors, body : IntakeBodies,
                            isAvailable : {FALSE}, response : {NoResponse}]]
    /\ SlotIdle
    /\ UsersIdle

IntakeNext == \E r \in Racers : RaceCheck(r) \/ RaceInsert(r)
IntakeSpec == IntakeInit /\ [][IntakeNext]_vars

\* the requests of the user that have stored a booking
Stored(u) == {r \in Racers : reqs[r].user = u /\ reqs[r].response.status = 201}

\* C24: every booking createBooking has stored has the status pending, and the
\* bookings of each customer_id are as many as the successful requests of the caller
\* with that id, whatever status and customer_id the request bodies carry.
C24_CreatedIsPendingAndOwn ==
    /\ \A id \in DOMAIN bookings : bookings[id].status = "pending"
    /\ \A id \in DOMAIN bookings : bookings[id].customer_id \in Actors
    /\ \A u \in Actors :
          Cardinality({id \in DOMAIN bookings : bookings[id].customer_id = u})
              = Cardinality(Stored(u))

\* a request whose body names the customer U3 and the status confirmed has stored a
\* booking
C24_Witness ==
    \E r \in Racers :
        /\ reqs[r].response.status = 201
        /\ reqs[r].body.status = "confirmed"
        /\ reqs[r].body.customer_id = "U3"
        /\ \E id \in DOMAIN bookings : bookings[id].customer_id = reqs[r].user

(***************************************************************************)
(* Bookings without a provider: requests that create them, and the slot    *)
(* engine asked about the absent provider                                  *)
(***************************************************************************)
OpenBodies ==
    [provider_id : {NULL, "P1"}, appointment_date : {1},
     start_time : {0}, end_time : {60, 120},
     required : {TRUE}, appointment_type : {NULL}]
\* getAvailableSlots is synchronous: no request is served while its loop runs
LoopIdle == slotPc \notin {"test", "body"}

OpenInit ==
    /\ bookings = NoBookings
    /\ nextId = 1
    /\ today = 1
    /\ response = NoResponse
    /\ reqs = <<>>
    /\ SlotIdle
    /\ UsersIdle

OpenCreate == \E u \in Users, body \in OpenBodies : LoopIdle /\ createBooking(u, body)
OpenQuery ==
    \E s \in {0, 60}, e \in {60, 120} : LoopIdle /\ s < e /\ QuerySlot(NULL, 1, s, e, NoId)
OpenSlots == \E d \in {<<1>>, <<2>>} : getAvailableSlots(NULL, <<1>>, d, 0, 2)
OpenNext == OpenCreate \/ OpenQuery \/ OpenSlots \/ LoopTest \/ LoopBody
OpenSpec == OpenInit /\ [][OpenNext]_vars

\* C27: bookings without a provider are exempt from the conflict check:
\* isSlotAvailable(null, ...) returns true whatever bookings exist,
\* getAvailableSlots(null, ...) returns every candidate slot, and a well-formed
\* createBooking request without a provider is stored whatever bookings exist.
C27_NoProviderNoConflict ==
    /\ []((avail.asked /\ avail.provider_id = NULL) => avail.result = TRUE)
    /\ []((slotPc = "done" /\ call.provider_id = NULL /\ call.duration_minutes >= 1)
           => {MinuteOf(availableSlots[i]) : i \in 1..Len(availableSlots)} = Grid(call))
    /\ [][\A u \in Users, body \in OpenBodies :
             (createBooking(u, body) /\ body.provider_id = NULL)
             => (response'.status = 201 /\ nextId \in DOMAIN bookings')]_vars

\* two active bookings without a provider overlap on one date, isSlotAvailable has
\* answered true for the absent provider, and the slots call made after the
\* bookings were stored has returned its whole grid
C27_Witness ==
    /\ \E i, j \in DOMAIN bookings :
          /\ i # j
          /\ bookings[i].provider_id = NULL /\ bookings[j].provider_id = NULL
          /\ bookings[i].appointment_date = bookings[j].appointment_date
          /\ Active(bookings[i]) /\ Active(bookings[j])
          /\ Overlap(bookings[i].start_time, bookings[i].end_time,
                     bookings[j].start_time, bookings[j].end_time)
    /\ avail.asked /\ avail.provider_id = NULL /\ avail.result = TRUE
    /\ slotPc = "done"
    /\ response.op = "getAvailableSlots"
    /\ call.provider_id = NULL
    /\ Len(availableSlots) = 2

\* C29: getAvailableSlots and isSlotAvailable agree: for a provider and a duration of
\* at least one minute, a candidate time t of the grid is among the slots returned
\* if and only if isSlotAvailable(provider, date, t, t + d) is true of the same table.
C29_SlotsAgreeWithAvailability ==
    (slotPc = "done" /\ call.provider_id # NULL /\ call.duration_minutes >= 1)
    => \A t \in Grid(call) :
          (t \in {MinuteOf(availableSlots[i]) : i \in 1..Len(availableSlots)})
          <=> isSlotAvailable(bookings, call.provider_id, call.appointment_date,
                              t * 60, (t + call.duration_minutes) * 60, NoId)

\* C26: a reset token issued by forgotPassword for one account changes the password
\* of that account only: a resetPassword request presenting it changes the password
\* of no other user.
C26_TokenResetsItsAccountOnly ==
    [][\A token \in KnownTokens :
          resetPassword(token, "pw2", "s2")
          => \A i \in DOMAIN users :
                users'[i].password # users[i].password
                => \E k \in Issues(token[1]) : issued[k].user = i]_vars

\* ---------------------------------------------------------------------------
\* Accounts: Google sign-in, and update and deletion of users by email
\* ---------------------------------------------------------------------------
\* the password column of a row inserted without a password
NoPassword == [salt |-> NULL, digest |-> <<>>]
\* a row DELETE has removed: no query finds it, and its id is never given again
Removed ==
    [email |-> NULL, user_role |-> NULL, password |-> NoPassword, domain |-> NULL,
     customer_admin_id |-> NoId, password_reset_token |-> <<>>,
     password_reset_expires |-> <<>>, google_id |-> NULL]
Present(tbl) == {i \in DOMAIN tbl : tbl[i] # Removed}

\* User.findByGoogleId: the rows of the SELECT
findByGoogleId(tbl, googleId) == {i \in Present(tbl) : tbl[i].google_id = googleId}
\* User.findByEmail: the rows of the SELECT
findByEmail(tbl, email) == {i \in Present(tbl) : tbl[i].email = email}
\* User.linkGoogleAccount: the table after UPDATE users SET google_id = $1 ... WHERE id = $3
linkGoogleAccount(tbl, userId, googleId) == [tbl EXCEPT ![userId].google_id = googleId]
\* User.createGoogleUser: the row of the INSERT, of role client and without password
createGoogleUser(userData) ==
    [UserRow([email |-> userData.email, user_role |-> "client", domain |-> NULL],
             NoPassword, NoId) EXCEPT !.google_id = userData.googleId]
\* User.update: the table after UPDATE users SET password = $3 ... WHERE email = $4
User_update(tbl, email, password, salt) ==
    [i \in DOMAIN tbl |->
        IF i \in findByEmail(tbl, email)
        THEN [tbl[i] EXCEPT !.password = hashPassword(password, salt)]
        ELSE tbl[i]]
\* User.delete: the table after DELETE FROM users WHERE email = $1; the rows that
\* referenced a deleted row by customer_admin_id get NULL (ON DELETE SET NULL)
User_delete(tbl, email) ==
    [i \in DOMAIN tbl |->
        IF i \in findByEmail(tbl, email) THEN Removed
        ELSE IF tbl[i].customer_admin_id \in findByEmail(tbl, email)
        THEN [tbl[i] EXCEPT !.customer_admin_id = NoId]
        ELSE tbl[i]]

\* the verify callback of the GoogleStrategy, with the profile Google returned;
\* profile.email is NULL when the profile carries no email
GoogleVerify(profile) ==
    /\ IF findByGoogleId(users, profile.id) # {}
       THEN UNCHANGED users
       ELSE IF profile.email # NULL /\ findByEmail(users, profile.email) # {}
       THEN \E user \in findByEmail(users, profile.email) :
                users' = linkGoogleAccount(users, user, profile.id)
       ELSE /\ Len(users) < MaxUsers
            /\ users' = Append(users, createGoogleUser(
                            [googleId |-> profile.id,
                             email |-> IF profile.email = NULL THEN "" ELSE profile.email]))
    /\ response' = Sent("google", 200)
    /\ UNCHANGED <<bookings, nextId, today, reqs, slotVars, authResult, regs, tokenVars>>

\* PUT /api/users/:email: validateUpdateUserInput, then UserController.update
UpdateUser(email, body, salt) ==
    /\ IF body.password = NULL
       THEN /\ response' = Sent("update", 400)
            /\ UNCHANGED users
       ELSE IF findByEmail(users, email) = {}
       THEN /\ response' = Failed("update", NotFoundError)
            /\ UNCHANGED users
       ELSE /\ users' = User_update(users, email, body.password, salt)
            /\ response' = Sent("update", 200)
    /\ UNCHANGED <<bookings, nextId, today, reqs, slotVars, authResult, regs, tokenVars>>

\* DELETE /api/users/:email: UserController.delete
DeleteUser(email) ==
    /\ IF findByEmail(users, email) = {}
       THEN /\ response' = Failed("delete", NotFoundError)
            /\ UNCHANGED users
       ELSE /\ users' = User_delete(users, email)
            /\ response' = Sent("delete", 200)
    /\ UNCHANGED <<bookings, nextId, today, reqs, slotVars, authResult, regs, tokenVars>>

GoogleProfiles == [id : {"G1", "G2"}, email : {"e1", "g1", NULL}]
AccountEmails == {"a1", "e1", "g1"}
UpdateBodies == [password : {NULL, "pw2"}]
AccountInit ==
    /\ bookings = NoBookings
    /\ nextId = 1
    /\ today = 1
    /\ response = NoResponse
    /\ reqs = <<>>
    /\ SlotIdle
    /\ users \in ResetTables
    /\ authResult = NoAuth
    /\ regs = <<>>
    /\ TokensIdle
GoogleLogin == \E profile \in GoogleProfiles : GoogleVerify(profile)
UpdateUserRequest == \E email \in AccountEmails, body \in UpdateBodies : UpdateUser(email, body, "s2")
DeleteUserRequest == \E email \in AccountEmails : DeleteUser(email)
AccountNext == GoogleLogin \/ UpdateUserRequest \/ DeleteUserRequest
AccountSpec == AccountInit /\ [][AccountNext]_vars

\* ---------------------------------------------------------------------------
\* Properties of accounts
\* ---------------------------------------------------------------------------
\* C25: deleting a user by email removes at most the one targeted account: the
\* request changes at most one row of the users table, and every other user
\* record, one with the same email under another tenant included, is unchanged.
C25_DeleteRemovesOneAccount ==
    [][\A email \in AccountEmails :
          DeleteUser(email)
          => Cardinality({i \in DOMAIN users : users'[i] # users[i]}) <= 1]_vars

\* C21: authentication bindings only grow: while a user's row stays in the table,
\* no step removes the password hash it stores, and no step removes or replaces
\* a Google id already linked to it.
C21_BindingsOnlyGrow ==
    [][\A i \in Present(users) :
          users'[i] # Removed
          => /\ users[i].password # NoPassword => users'[i].password # NoPassword
             /\ users[i].google_id # NULL => users'[i].google_id = users[i].google_id]_vars

====
